---- MODULE Spec2Model ----
(***************************************************************************)
(* Model of adb.py: the interactive session loop (main_loop), the bridge    *)
(* invoker (run_adb / which_adb), the device selector                       *)
(* (_pick_serial_interactive) and the catalog of menu operations.           *)
(*                                                                          *)
(* Text is modelled as a sequence of one-character strings, so that the     *)
(* parsing the code does (strip, splitlines, split, substring test, int,    *)
(* shlex.split) is computed and not assumed.                                *)
(*                                                                          *)
(* One cycle of the loop is one action: the menu read, the dispatched       *)
(* handler with every prompt and bridge invocation it makes, and the        *)
(* except clauses of main_loop.  The acknowledgment pause is the next       *)
(* action.  Whether the bridge executable can be resolved is sampled once   *)
(* per cycle.                                                               *)
(***************************************************************************)
EXTENDS Integers, Sequences, FiniteSets, TLC

(***************************************************************************)
(* Bounds of the model.                                                     *)
(***************************************************************************)
\* number of device lines after the header in a listing
MaxDevLines == 2
\* number of banner lines before the header in a listing
MaxBanners == 1
\* length of the command typed at the "Run command" prompt
MaxCmdLen == 2
\* largest digit typed at the device selection prompt
MaxDigit == 3

(***************************************************************************)
(* String literals of the source, as character sequences.                   *)
(***************************************************************************)
T_devices == <<"d", "e", "v", "i", "c", "e", "s">>
T_dash_l == <<"-", "l">>
T_start_server == <<"s", "t", "a", "r", "t", "-", "s", "e", "r", "v", "e", "r">>
T_kill_server == <<"k", "i", "l", "l", "-", "s", "e", "r", "v", "e", "r">>
T_pair == <<"p", "a", "i", "r">>
T_connect == <<"c", "o", "n", "n", "e", "c", "t">>
T_tcpip == <<"t", "c", "p", "i", "p">>
T_dash_s == <<"-", "s">>
T_shell == <<"s", "h", "e", "l", "l">>
T_install == <<"i", "n", "s", "t", "a", "l", "l">>
T_dash_r == <<"-", "r">>
T_push == <<"p", "u", "s", "h">>
T_pull == <<"p", "u", "l", "l">>
T_reboot == <<"r", "e", "b", "o", "o", "t">>
T_disconnect == <<"d", "i", "s", "c", "o", "n", "n", "e", "c", "t">>
T_5555 == <<"5", "5", "5", "5">>
T_colon5555 == <<":", "5", "5", "5", "5">>
T_normal == <<"n", "o", "r", "m", "a", "l">>
T_1 == <<"1">>
\* the substring _pick_serial_interactive looks for in a listing line
ReadyToken == <<"d", "e", "v", "i", "c", "e">>
\* the substring pair_device looks for in the pair stdout
SuccessMarker == <<"S", "u", "c", "c", "e", "s", "s", "f", "u", "l", "l", "y">>

(***************************************************************************)
(* Python text operations used by the source.                               *)
(***************************************************************************)
\* str.isspace for one character
IsSpace(c) == c \in {" ", "\t", "\n"}

\* s[i:j] with 1-based inclusive bounds, empty when i > j
Slice(s, i, j) == IF i > j THEN <<>> ELSE SubSeq(s, i, j)

\* str.strip()
Strip(s) ==
    LET keep == {i \in 1..Len(s) : ~IsSpace(s[i])}
    IN  IF keep = {} THEN <<>>
        ELSE LET lo == CHOOSE i \in keep : \A j \in keep : i <= j
                 hi == CHOOSE i \in keep : \A j \in keep : j <= i
             IN  SubSeq(s, lo, hi)

\* sub in s
Contains(s, sub) ==
    \E i \in 1..(Len(s) - Len(sub) + 1) : SubSeq(s, i, i + Len(sub) - 1) = sub

\* s.startswith(pre)
StartsWith(s, pre) == Len(s) >= Len(pre) /\ SubSeq(s, 1, Len(pre)) = pre

\* the pieces of s between the occurrences of the character sep (str.split(sep))
RECURSIVE SplitOn(_, _)
SplitOn(s, sep) ==
    LET at == {i \in 1..Len(s) : s[i] = sep}
    IN  IF at = {} THEN <<s>>
        ELSE LET k == CHOOSE i \in at : \A j \in at : i <= j
             IN  <<Slice(s, 1, k - 1)>> \o SplitOn(Slice(s, k + 1, Len(s)), sep)

\* str.splitlines(): as split on the line break, without a last empty line
SplitLines(s) ==
    LET parts == SplitOn(s, "\n")
    IN  IF parts[Len(parts)] = <<>> THEN SubSeq(parts, 1, Len(parts) - 1) ELSE parts

\* str.split(): the maximal runs of non-whitespace characters
RECURSIVE Split(_)
Split(s) ==
    LET t == Strip(s)
        ws == {i \in 1..Len(t) : IsSpace(t[i])}
    IN  IF t = <<>> THEN <<>>
        ELSE IF ws = {} THEN <<t>>
        ELSE LET k == CHOOSE i \in ws : \A j \in ws : i <= j
             IN  <<SubSeq(t, 1, k - 1)>> \o Split(Slice(t, k + 1, Len(t)))

\* lst[1:]
Rest(lst) == IF lst = <<>> THEN <<>> ELSE Tail(lst)

\* "\n".join(lines)
RECURSIVE JoinLines(_)
JoinLines(lines) ==
    IF lines = <<>> THEN <<>>
    ELSE IF Len(lines) = 1 THEN lines[1]
    ELSE lines[1] \o <<"\n">> \o JoinLines(Tail(lines))

Digits == <<"0", "1", "2", "3", "4", "5", "6", "7", "8", "9">>

IsDigit(c) == \E d \in 1..10 : Digits[d] = c

DigitVal(c) == (CHOOSE d \in 1..10 : Digits[d] = c) - 1

RECURSIVE DigitsVal(_)
DigitsVal(ds) ==
    IF ds = <<>> THEN 0 ELSE 10 * DigitsVal(SubSeq(ds, 1, Len(ds) - 1)) + DigitVal(ds[Len(ds)])

\* int(s): surrounding whitespace ignored, one optional sign, then digits only;
\* anything else raises ValueError (ok = FALSE)
PyInt(s) ==
    LET t == Strip(s)
        signed == t # <<>> /\ t[1] \in {"+", "-"}
        ds == IF signed THEN Tail(t) ELSE t
        ok == ds # <<>> /\ \A i \in 1..Len(ds) : IsDigit(ds[i])
    IN  [ok |-> ok,
         val |-> IF ~ok THEN 0
                 ELSE IF signed /\ t[1] = "-" THEN 0 - DigitsVal(ds) ELSE DigitsVal(ds)]

\* lst[i] with Python's 0-based index, negative indexes counting from the end;
\* out of range raises IndexError (ok = FALSE)
PyIndex(lst, i) ==
    IF 0 <= i /\ i < Len(lst) THEN [ok |-> TRUE, val |-> lst[i + 1]]
    ELSE IF i < 0 /\ 0 - i <= Len(lst) THEN [ok |-> TRUE, val |-> lst[Len(lst) + i + 1]]
    ELSE [ok |-> FALSE, val |-> <<>>]

(***************************************************************************)
(* shlex.split(command): POSIX shell-word tokenization.  Whitespace          *)
(* separates words, '...' and "..." quote, a backslash escapes the next     *)
(* character (inside "..." only a backslash or a double quote).  A quote    *)
(* left open or a trailing backslash raises ValueError (ok = FALSE).        *)
(* st is the lexer state: "sp" between words, "a" in a word, "'" or "\""    *)
(* in a quotation, "\\" after a backslash (est is the state to return to).  *)
(***************************************************************************)
RECURSIVE ShlexScan(_, _, _, _, _, _, _)
ShlexScan(s, i, st, est, tok, quoted, toks) ==
    LET emit == IF tok # <<>> \/ quoted THEN Append(toks, tok) ELSE toks
    IN  IF i > Len(s)
        THEN IF st \in {"sp", "a"} THEN [ok |-> TRUE, toks |-> emit]
             ELSE [ok |-> FALSE, toks |-> <<>>]
        ELSE LET c == s[i]
             IN  CASE st = "sp" ->
                        IF IsSpace(c) THEN ShlexScan(s, i + 1, "sp", est, <<>>, FALSE, toks)
                        ELSE IF c = "\\" THEN ShlexScan(s, i + 1, "\\", "a", <<>>, FALSE, toks)
                        ELSE IF c \in {"'", "\""} THEN ShlexScan(s, i + 1, c, est, <<>>, FALSE, toks)
                        ELSE ShlexScan(s, i + 1, "a", est, <<c>>, FALSE, toks)
                   [] st = "a" ->
                        IF IsSpace(c) THEN ShlexScan(s, i + 1, "sp", est, <<>>, FALSE, emit)
                        ELSE IF c \in {"'", "\""} THEN ShlexScan(s, i + 1, c, est, tok, quoted, toks)
                        ELSE IF c = "\\" THEN ShlexScan(s, i + 1, "\\", "a", tok, quoted, toks)
                        ELSE ShlexScan(s, i + 1, "a", est, Append(tok, c), quoted, toks)
                   [] st \in {"'", "\""} ->
                        IF c = st THEN ShlexScan(s, i + 1, "a", est, tok, TRUE, toks)
                        ELSE IF c = "\\" /\ st = "\"" THEN ShlexScan(s, i + 1, "\\", st, tok, TRUE, toks)
                        ELSE ShlexScan(s, i + 1, st, est, Append(tok, c), TRUE, toks)
                   [] OTHER ->
                        IF est = "\"" /\ c \notin {"\\", "\""}
                        THEN ShlexScan(s, i + 1, est, est, tok \o <<"\\", c>>, quoted, toks)
                        ELSE ShlexScan(s, i + 1, est, est, Append(tok, c), quoted, toks)

ShlexSplit(s) == ShlexScan(s, 1, "sp", "a", <<>>, FALSE, <<>>)

(***************************************************************************)
(* The world outside the program: what the user types, what files exist,    *)
(* what the bridge executable prints.                                       *)
(***************************************************************************)
\* lines of an "adb devices" listing
HeaderLine == <<"L", "i", "s", "t", " ", "o", "f", " ", "d", "e", "v", "i", "c", "e", "s", " ", "a", "t", "t", "a", "c", "h", "e", "d">>
BannerLine == <<"*", " ", "d", "a", "e", "m", "o", "n", " ", "s", "t", "a", "r", "t", "e", "d", " ", "s", "u", "c", "c", "e", "s", "s", "f", "u", "l", "l", "y", " ", "*">>
LineReadyA == <<"e", "1", "\t", "d", "e", "v", "i", "c", "e">>
LineReadyB == <<"e", "2", "\t", "d", "e", "v", "i", "c", "e">>
LineUnauthorized == <<"u", "1", "\t", "u", "n", "a", "u", "t", "h", "o", "r", "i", "z", "e", "d">>
LineOffline == <<"o", "1", "\t", "o", "f", "f", "l", "i", "n", "e">>
LineNoPermissions == <<"n", "1", "\t", "n", "o", " ", "p", "e", "r", "m", "i", "s", "s", "i", "o", "n", "s", ";", " ", "s", "e", "e", " ", "[", "t", "o", "o", "l", "s", "/", "d", "e", "v", "i", "c", "e", ".", "h", "t", "m", "l", "]">>
DevLineVocab == {LineReadyA, LineReadyB, LineUnauthorized, LineOffline, LineNoPermissions}

\* sequences of at most n elements of S
SeqsUpTo(S, n) == UNION {[1..k -> S] : k \in 0..n}

\* stdout of a listing: banners, the header, the device lines, a closing blank line
DevicesStdouts ==
    {JoinLines(b \o <<HeaderLine>> \o d) \o <<"\n", "\n">> :
        b \in SeqsUpTo({BannerLine}, MaxBanners), d \in SeqsUpTo(DevLineVocab, MaxDevLines)}

\* stdout of "adb pair"
OutPaired == <<"S", "u", "c", "c", "e", "s", "s", "f", "u", "l", "l", "y", " ", "p", "a", "i", "r", "e", "d", " ", "t", "o", " ", "h", ":", "1">>
OutPairFailed == <<"F", "a", "i", "l", "e", "d", ":", " ", "w", "r", "o", "n", "g", " ", "p", "i", "n">>
OutLowercase == <<"s", "u", "c", "c", "e", "s", "s", "f", "u", "l", "l", "y", " ", "p", "a", "i", "r", "e", "d">>
PairStdouts == {OutPaired \o <<"\n">>, OutPairFailed, OutLowercase, <<>>}

\* what one launch of the bridge executable does: it exits with a code and a
\* stdout, cannot be started (an OSError other than absence), or is interrupted
Exits(outs) == {[kind |-> "exit", rc |-> rc, out |-> o] : rc \in {0, 1}, o \in outs}
Broken == {[kind |-> k, rc |-> 1, out |-> <<>>] : k \in {"oserror", "kbd"}}
PlainRuns == Exits({<<>>}) \cup Broken
PairRuns == Exits(PairStdouts) \cup Broken
DevicesRuns ==
    {[kind |-> "exit", rc |-> 0, out |-> o] : o \in DevicesStdouts}
    \cup {[kind |-> "exit", rc |-> 1, out |-> <<>>]} \cup Broken

\* what the user does at a prompt: types a line, or interrupts
Typed(texts) == {[kbd |-> FALSE, v |-> t] : t \in texts}
Interrupted == [kbd |-> TRUE, v |-> <<>>]
Answers(texts) == Typed(texts) \cup {Interrupted}

HostPortA == <<"h", ":", "1">>
HostPortB == <<"h">>
HostPortC == <<"h", ":", "1", ":", "2">>
HostPorts == {<<>>, HostPortA, HostPortB, HostPortC}
PinA == <<"7">>
Pins == {PinA}
T_bootloader == <<"b", "o", "o", "t", "l", "o", "a", "d", "e", "r">>
Modes == {<<>>, T_normal, T_bootloader}
PathFile == <<"f">>
PathDir == <<"d">>
PathMissing == <<"n">>
PathRemote == <<"r">>
LocalPaths == {<<>>, PathFile, PathDir, PathMissing}
RemotePaths == {<<>>, PathRemote}
CmdAlphabet == {"a", " ", "'", "\\"}
Commands == SeqsUpTo(CmdAlphabet, MaxCmdLen)
Selections == {<<Digits[d + 1]>> : d \in 0..MaxDigit} \cup {<<>>, <<"x">>, <<"-", "1">>}
MenuInputs ==
    {<<>>, <<"0">>, <<"1">>, <<"2">>, <<"3">>, <<"4">>, <<"5">>, <<"6">>, <<"7">>, <<"8">>,
     <<"9">>, <<"1", "0">>, <<"1", "1">>, <<"1", "2">>, <<"1", "3">>, <<"1", "4">>,
     <<"1", "5">>, <<"1", "6">>, <<"x">>}

\* os.path.exists / os.path.isfile on the local disk
PathExists(p) == p \in {PathFile, PathDir}
PathIsFile(p) == p = PathFile

(***************************************************************************)
(* The state.                                                               *)
(*   pc        where main_loop is: "menu" (about to read a selection),      *)
(*             "ack" (waiting for Enter), "done" (left the loop by a        *)
(*             break), "abort" (left main_loop by an uncaught exception)    *)
(*   exitKind  why the loop was left                                        *)
(*   adbAt     where the bridge executable is installed: on the search      *)
(*             path, in the cache directory, or nowhere                     *)
(*   sel       the selection read in this cycle                             *)
(*   prompts   the parameter prompts of this cycle, with their answers      *)
(*   calls     the executables launched in this cycle, with their arguments *)
(*   results   what the captured bridge invocations of this cycle returned  *)
(*   reports   what this cycle printed, one tag per message                 *)
(*   picked    what the device selector parsed and returned in this cycle   *)
(***************************************************************************)
VARIABLES pc, exitKind, adbAt, sel, prompts, calls, results, reports, picked

vars == <<pc, exitKind, adbAt, sel, prompts, calls, results, reports, picked>>

Last(q) == q[Len(q)]

\* the record a handler builds up: what it asked, launched, got back and
\* printed, and the exception that ended it ("none" when it returned)
NoPick == [ran |-> FALSE, out |-> <<>>, serials |-> <<>>, serial |-> <<>>]
H0 == [prompts |-> <<>>, calls |-> <<>>, results |-> <<>>, reports |-> <<>>,
       picked |-> NoPick, exc |-> "none"]

\* console.print of one message
Say(h, tag) == [h EXCEPT !.reports = Append(@, tag)]

\* Prompt.ask / Confirm.ask: an empty line gives the default, any other line
\* is returned stripped; an interrupt raises KeyboardInterrupt
Ask(h, name, answer, default) ==
    IF answer.kbd
    THEN [h EXCEPT !.prompts = Append(@, [name |-> name, kbd |-> TRUE, v |-> <<>>]),
                   !.exc = "kbd"]
    ELSE [h EXCEPT !.prompts = Append(@, [name |-> name, kbd |-> FALSE,
                        v |-> IF answer.v = <<>> THEN default ELSE Strip(answer.v)])]

\* the value the last prompt returned
Answer(h) == Last(h.prompts).v

\* which_adb: the search path, then the cache directory, then the bare name
which_adb(at) == IF at = "path" THEN "path" ELSE IF at = "cache" THEN "cache" ELSE "bare"

\* run_adb with FileNotFoundError handled by its last clause, like any other
\* Exception: the absence comes back as (1, "", str(e))
run_adb_swallowing(h, at, args, run) ==
    LET launched == [h EXCEPT !.calls = Append(@, <<"adb">> \o args)]
    IN  IF run.kind = "kbd" /\ which_adb(at) # "bare" THEN [launched EXCEPT !.exc = "kbd"]
        ELSE IF run.kind = "oserror" \/ which_adb(at) = "bare"
             THEN [launched EXCEPT !.results = Append(@, [rc |-> 1, out |-> <<>>])]
        ELSE [launched EXCEPT !.results = Append(@, [rc |-> run.rc, out |-> Strip(run.out)])]

\* run_adb: launch the resolved executable with args and wait.  A bare name
\* that is not on the search path raises FileNotFoundError, which run_adb
\* re-raises; any other Exception becomes (1, "", str(e)); an interrupt is
\* not an Exception and propagates.  stdout is returned stripped.
run_adb(h, at, args, run) ==
    LET launched == [h EXCEPT !.calls = Append(@, <<"adb">> \o args)]
    IN  IF which_adb(at) = "bare" THEN [launched EXCEPT !.exc = "fnf"]
        ELSE IF run.kind = "kbd" THEN [launched EXCEPT !.exc = "kbd"]
        ELSE IF run.kind = "oserror"
             THEN [launched EXCEPT !.results = Append(@, [rc |-> 1, out |-> <<>>])]
        ELSE [launched EXCEPT !.results = Append(@, [rc |-> run.rc, out |-> Strip(run.out)])]

\* the result of the last captured invocation
Rc(h) == Last(h.results).rc
Out(h) == Last(h.results).out

\* the filter of _pick_serial_interactive: a non-blank line containing "device"
Selectable(line) == Strip(line) # <<>> /\ Contains(line, ReadyToken)

\* [line.split()[0] for line in lines if line.strip() and "device" in line]
RECURSIVE SerialsOf(_)
SerialsOf(lines) ==
    IF lines = <<>> THEN <<>>
    ELSE (IF Selectable(Head(lines)) THEN <<Split(Head(lines))[1]>> ELSE <<>>)
         \o SerialsOf(Tail(lines))

\* serials[int(choice) - 1], and serials[0] on any Exception
ChosenSerial(serials, choice) ==
    LET n == PyInt(choice)
        at == PyIndex(serials, n.val - 1)
    IN  IF n.ok /\ at.ok THEN at.val ELSE serials[1]

\* the world at a blocking point: every answer to a prompt, every behaviour
\* of a launched bridge executable
Prompted(h, name, answers, default) == {Ask(h, name, a, default) : a \in answers}
Invoked(h, at, args, runs) == {run_adb(h, at, args, run) : run \in runs}

\* sequencing: an exception raised so far propagates, otherwise the rest of
\* the handler runs
Then(H, Rest_(_)) == UNION {IF h.exc # "none" THEN {h} ELSE Rest_(h) : h \in H}

\* console.print of the outcome of a captured invocation
Outcome(h) == {Say(h, IF Rc(h) = 0 THEN "success" ELSE "failure")}

\* _pick_serial_interactive; the serial <<>> stands for None
_pick_serial_interactive(h, at, listing) ==
    Then(Invoked(h, at, <<T_devices>>, {listing}), LAMBDA h1 :
        IF Rc(h1) # 0 THEN {Say(h1, "listerror")}
        ELSE LET serials == SerialsOf(Rest(SplitLines(Out(h1))))
                 got == [ran |-> TRUE, out |-> Out(h1), serials |-> serials, serial |-> <<>>]
                 h2 == [h1 EXCEPT !.picked = got]
             IN  IF serials = <<>> THEN {Say(h2, "nodevice")}
                 ELSE IF Len(serials) = 1 THEN {[h2 EXCEPT !.picked.serial = serials[1]]}
                 ELSE Then(Prompted(Say(h2, "enumeration"), "select", Answers(Selections), T_1),
                           LAMBDA h3 :
                               {[h3 EXCEPT !.picked.serial = ChosenSerial(serials, Answer(h3))]}))

\* serial = _pick_serial_interactive(); if not serial: return
WithSerial(h, at, listing, Rest_(_)) ==
    Then(_pick_serial_interactive(h, at, listing), LAMBDA h1 :
        IF h1.picked.serial = <<>> THEN {h1} ELSE Rest_(h1))

(***************************************************************************)
(* The catalog of operations.  Each handler gives the set of records of     *)
(* what it can do, one for every behaviour of the world at its blocking     *)
(* points; listing is what the device listing does, when the handler asks   *)
(* for one.                                                                 *)
(***************************************************************************)
list_devices(at, listing) ==
    Then(Invoked(H0, at, <<T_devices, T_dash_l>>, {listing}), LAMBDA h1 :
        {Say(h1, IF Rc(h1) = 0 THEN "table" ELSE "failure")})

start_server(at) == Then(Invoked(H0, at, <<T_start_server>>, PlainRuns), Outcome)

stop_server(at) == Then(Invoked(H0, at, <<T_kill_server>>, PlainRuns), Outcome)

\* hostport.split(":")[0]
HostOf(hostport) == SplitOn(hostport, ":")[1]

\* the pair test without the success marker
PairSucceededByCode(rc, out) == rc = 0

\* rc == 0 and "Successfully" in out
PairSucceeded(rc, out) == rc = 0 /\ Contains(out, SuccessMarker)

pair_device(at) ==
    Then(Prompted(H0, "hostport", Answers(HostPorts), <<>>), LAMBDA h1 :
    Then(Prompted(h1, "pin", Answers(Pins), <<>>), LAMBDA h2 :
    Then(Invoked(h2, at, <<T_pair, Answer(h1), Answer(h2)>>, PairRuns), LAMBDA h3 :
        IF PairSucceeded(Rc(h3), Out(h3))
        THEN Then(Invoked(Say(h3, "success"), at,
                          <<T_connect, HostOf(Answer(h1)) \o T_colon5555>>, PlainRuns),
                  LAMBDA h4 : {Say(h4, IF Rc(h4) = 0 THEN "success" ELSE "warning")})
        ELSE {Say(h3, "failure")})))

connect_device(at) ==
    Then(Prompted(H0, "hostport", Answers(HostPorts), <<>>), LAMBDA h1 :
    Then(Invoked(h1, at, <<T_connect, Answer(h1)>>, PlainRuns), Outcome))

enable_tcpip(at) ==
    Then(Prompted(H0, "port", Answers({<<>>, T_5555}), T_5555), LAMBDA h1 :
    Then(Invoked(h1, at, <<T_tcpip, Answer(h1)>>, PlainRuns), Outcome))

\* subprocess.run([adb, "-s", serial, "shell"]) with the terminal attached;
\* open_shell catches the interrupt and every Exception itself
open_shell(at, listing) ==
    WithSerial(H0, at, listing, LAMBDA h1 :
        LET h2 == [Say(h1, "info") EXCEPT
                      !.calls = Append(@, <<"adb", T_dash_s, h1.picked.serial, T_shell>>)]
        IN  IF which_adb(at) = "bare" THEN {Say(h2, "failure")}
            ELSE {h2, Say(h2, "shellinterrupted"), Say(h2, "failure")})

\* the command test dropped
CommandNeverRejected(command) == FALSE

\* not command
CommandRejected(command) == command = <<>>

\* shlex.split raises ValueError on a command it cannot tokenize; nothing in
\* run_command_on_device catches it
run_command_on_device(at, listing) ==
    WithSerial(H0, at, listing, LAMBDA h1 :
    Then(Prompted(h1, "command", Answers(Commands), <<>>), LAMBDA h2 :
        LET args == ShlexSplit(Answer(h2))
        IN  IF CommandRejected(Answer(h2)) THEN {Say(h2, "validation")}
            ELSE IF ~args.ok THEN {[h2 EXCEPT !.exc = "error"]}
            ELSE Then(Invoked(h2, at, <<T_dash_s, h1.picked.serial, T_shell>> \o args.toks,
                              PlainRuns), Outcome)))

\* not apk_path or not os.path.isfile(apk_path)
ApkRejected(path) == path = <<>> \/ ~PathIsFile(path)

install_apk(at, listing) ==
    Then(Prompted(H0, "apk_path", Answers(LocalPaths), <<>>), LAMBDA h1 :
        IF ApkRejected(Answer(h1)) THEN {Say(h1, "validation")}
        ELSE WithSerial(h1, at, listing, LAMBDA h2 :
             Then(Invoked(Say(h2, "info"), at,
                          <<T_dash_s, h2.picked.serial, T_install, T_dash_r, Answer(h1)>>,
                          PlainRuns), Outcome)))

\* the push test without the existence check
SrcRejectedWhenEmpty(src) == src = <<>>

\* not src or not os.path.exists(src)
SrcRejected(src) == src = <<>> \/ ~PathExists(src)

push_file(at, listing) ==
    Then(Prompted(H0, "src", Answers(LocalPaths), <<>>), LAMBDA h1 :
        IF SrcRejected(Answer(h1)) THEN {Say(h1, "validation")}
        ELSE Then(Prompted(h1, "dst", Answers(RemotePaths), <<>>), LAMBDA h2 :
             WithSerial(h2, at, listing, LAMBDA h3 :
             Then(Invoked(Say(h3, "info"), at,
                          <<T_dash_s, h3.picked.serial, T_push, Answer(h1), Answer(h2)>>,
                          PlainRuns), Outcome))))

\* not remote, and then not dst
PullRejected(path) == path = <<>>

pull_file(at, listing) ==
    Then(Prompted(H0, "remote", Answers(RemotePaths), <<>>), LAMBDA h1 :
        IF PullRejected(Answer(h1)) THEN {Say(h1, "validation")}
        ELSE Then(Prompted(h1, "dst", Answers(LocalPaths), <<>>), LAMBDA h2 :
             IF PullRejected(Answer(h2)) THEN {Say(h2, "validation")}
             ELSE WithSerial(h2, at, listing, LAMBDA h3 :
                  Then(Invoked(Say(h3, "info"), at,
                               <<T_dash_s, h3.picked.serial, T_pull, Answer(h1), Answer(h2)>>,
                               PlainRuns), Outcome))))

\* args = ["-s", serial, "reboot"], and the mode when it is not "normal"
RebootArgs(serial, mode) ==
    <<T_dash_s, serial, T_reboot>>
    \o (IF mode # <<>> /\ mode # T_normal THEN <<mode>> ELSE <<>>)

reboot_device(at, listing) ==
    WithSerial(H0, at, listing, LAMBDA h1 :
    Then(Prompted(h1, "mode", Answers(Modes), T_normal), LAMBDA h2 :
    Then(Invoked(h2, at, RebootArgs(h1.picked.serial, Answer(h2)), PlainRuns), Outcome)))

disconnect_device(at) ==
    Then(Prompted(H0, "host", Answers(HostPorts), <<>>), LAMBDA h1 :
    Then(Invoked(h1, at, IF Answer(h1) # <<>> THEN <<T_disconnect, Answer(h1)>>
                         ELSE <<T_disconnect>>, PlainRuns), Outcome))

show_help == {Say(H0, "help")}

\* what the acquisition of the mirroring tool can do
OsTags == {"windows", "linux", "darwin", "other"}
ScrcpyAt == {"path", "cache", "nowhere"}
Acquisitions == {"installed", "notfound", "failed", "kbd", "mkdirfailed"}

\* ensure_scrcpy: the search path, the cache directory, then the acquisition
\* for the platform.  found tells whether a path (and not None) is returned.
\* The mkdir of the cache directory is outside every try; the acquisition
\* steps catch Exception, which an interrupt is not.
ensure_scrcpy(scr, os, acq) ==
    LET h1 == Say(H0, "acquiring")
    IN  IF scr \in {"path", "cache"} THEN [h |-> H0, found |-> TRUE]
        ELSE IF acq = "mkdirfailed" THEN [h |-> [h1 EXCEPT !.exc = "error"], found |-> FALSE]
        ELSE IF os = "other" THEN [h |-> h1, found |-> FALSE]
        ELSE IF acq = "kbd" THEN [h |-> [h1 EXCEPT !.exc = "kbd"], found |-> FALSE]
        ELSE IF acq = "failed" THEN [h |-> Say(h1, "acquirefailed"), found |-> FALSE]
        ELSE [h |-> h1, found |-> acq = "installed"]

\* the filter of try_screen_mirroring
MirrorReady(line) == Contains(line, ReadyToken) /\ ~StartsWith(line, <<"*">>)

try_screen_mirroring(at, listing) ==
    UNION {LET e == ensure_scrcpy(scr, os, acq)
           IN  IF e.h.exc # "none" THEN {e.h}
               ELSE IF ~e.found THEN {Say(e.h, "noscrcpy")}
               ELSE Then(Invoked(e.h, at, <<T_devices>>, {listing}), LAMBDA h1 :
                        LET h2 == [Say(h1, "info") EXCEPT !.calls = Append(@, <<"scrcpy">>)]
                        IN  IF SelectSeq(Rest(SplitLines(Out(h1))), MirrorReady) = <<>>
                            THEN {Say(h1, "nodevice")}
                            ELSE {h2, Say(h2, "failure"), [h2 EXCEPT !.exc = "kbd"]})
           : scr \in ScrcpyAt, os \in OsTags, acq \in Acquisitions}

(***************************************************************************)
(* main_loop.                                                               *)
(***************************************************************************)
Init ==
    /\ pc = "menu"
    /\ exitKind = "none"
    /\ adbAt \in {"path", "cache", "nowhere"}
    /\ sel = <<>>
    /\ prompts = <<>>
    /\ calls = <<>>
    /\ results = <<>>
    /\ reports = <<>>
    /\ picked = NoPick

\* the selection read at the menu equals the literal of a branch
Chose(menu, literal) == (IF menu = <<>> THEN T_1 ELSE Strip(menu)) = literal

\* the try statement around the dispatch: a handler that returns goes on to
\* the acknowledgment pause; FileNotFoundError and KeyboardInterrupt are
\* reported and break the loop; any other exception leaves main_loop
Dispatch(choice, h) ==
    /\ pc = "menu"
    /\ sel' = choice
    /\ prompts' = h.prompts
    /\ calls' = h.calls
    /\ results' = h.results
    /\ picked' = h.picked
    /\ reports' = CASE h.exc = "fnf" -> Append(h.reports, "toolmissing")
                    [] h.exc = "kbd" -> Append(h.reports, "cancelled")
                    [] OTHER -> h.reports
    /\ pc' = CASE h.exc = "none" -> "ack"
               [] h.exc \in {"fnf", "kbd"} -> "done"
               [] OTHER -> "abort"
    /\ exitKind' = CASE h.exc = "none" -> exitKind
                     [] h.exc = "fnf" -> "ToolMissing"
                     [] h.exc = "kbd" -> "Interrupt"
                     [] OTHER -> "UncaughtError"
    /\ UNCHANGED adbAt

\* one action per branch of the dispatch in main_loop
ListDevices ==
    /\ pc = "menu"
    /\ \E menu \in MenuInputs : Chose(menu, <<"1">>)
    /\ \E listing \in DevicesRuns :
           \E h \in list_devices(adbAt, listing) : Dispatch(<<"1">>, h)

StartServer ==
    /\ pc = "menu"
    /\ \E menu \in MenuInputs : Chose(menu, <<"2">>)
    /\ \E h \in start_server(adbAt) : Dispatch(<<"2">>, h)

StopServer ==
    /\ pc = "menu"
    /\ \E menu \in MenuInputs : Chose(menu, <<"3">>)
    /\ \E h \in stop_server(adbAt) : Dispatch(<<"3">>, h)

PairDevice ==
    /\ pc = "menu"
    /\ \E menu \in MenuInputs : Chose(menu, <<"4">>)
    /\ \E h \in pair_device(adbAt) : Dispatch(<<"4">>, h)

ConnectDevice ==
    /\ pc = "menu"
    /\ \E menu \in MenuInputs : Chose(menu, <<"5">>)
    /\ \E h \in connect_device(adbAt) : Dispatch(<<"5">>, h)

EnableTcpip ==
    /\ pc = "menu"
    /\ \E menu \in MenuInputs : Chose(menu, <<"6">>)
    /\ \E h \in enable_tcpip(adbAt) : Dispatch(<<"6">>, h)

OpenShell ==
    /\ pc = "menu"
    /\ \E menu \in MenuInputs : Chose(menu, <<"7">>)
    /\ \E listing \in DevicesRuns :
           \E h \in open_shell(adbAt, listing) : Dispatch(<<"7">>, h)

RunCommand ==
    /\ pc = "menu"
    /\ \E menu \in MenuInputs : Chose(menu, <<"8">>)
    /\ \E listing \in DevicesRuns :
           \E h \in run_command_on_device(adbAt, listing) : Dispatch(<<"8">>, h)

InstallApk ==
    /\ pc = "menu"
    /\ \E menu \in MenuInputs : Chose(menu, <<"9">>)
    /\ \E listing \in DevicesRuns :
           \E h \in install_apk(adbAt, listing) : Dispatch(<<"9">>, h)

PushFile ==
    /\ pc = "menu"
    /\ \E menu \in MenuInputs : Chose(menu, <<"1", "0">>)
    /\ \E listing \in DevicesRuns :
           \E h \in push_file(adbAt, listing) : Dispatch(<<"1", "0">>, h)

PullFile ==
    /\ pc = "menu"
    /\ \E menu \in MenuInputs : Chose(menu, <<"1", "1">>)
    /\ \E listing \in DevicesRuns :
           \E h \in pull_file(adbAt, listing) : Dispatch(<<"1", "1">>, h)

RebootDevice ==
    /\ pc = "menu"
    /\ \E menu \in MenuInputs : Chose(menu, <<"1", "2">>)
    /\ \E listing \in DevicesRuns :
           \E h \in reboot_device(adbAt, listing) : Dispatch(<<"1", "2">>, h)

DisconnectDevice ==
    /\ pc = "menu"
    /\ \E menu \in MenuInputs : Chose(menu, <<"1", "3">>)
    /\ \E h \in disconnect_device(adbAt) : Dispatch(<<"1", "3">>, h)

ScreenMirroring ==
    /\ pc = "menu"
    /\ \E menu \in MenuInputs : Chose(menu, <<"1", "4">>)
    /\ \E listing \in DevicesRuns :
           \E h \in try_screen_mirroring(adbAt, listing) : Dispatch(<<"1", "4">>, h)

ShowHelp ==
    /\ pc = "menu"
    /\ \E menu \in MenuInputs : Chose(menu, <<"1", "5">>)
    /\ \E h \in show_help : Dispatch(<<"1", "5">>, h)

\* selection "0": Confirm.ask, and the break when the answer is yes
ExitSelected ==
    /\ pc = "menu"
    /\ \E menu \in MenuInputs, confirm \in Answers({<<"y">>, <<"n">>}) :
        LET h == Ask(H0, "confirm", confirm, <<>>)
        IN  /\ Chose(menu, <<"0">>)
            /\ IF h.exc = "none" /\ Answer(h) = <<"y">>
               THEN /\ pc' = "done"
                    /\ exitKind' = "UserExit"
                    /\ sel' = <<"0">>
                    /\ prompts' = h.prompts
                    /\ reports' = <<"goodbye">>
                    /\ UNCHANGED <<adbAt, calls, results, picked>>
               ELSE Dispatch(<<"0">>, h)

\* the else branch: any other selection
UnknownSelection ==
    /\ pc = "menu"
    /\ \E menu \in MenuInputs :
        /\ \A d \in 0..15 : ~Chose(menu, IF d < 10 THEN <<Digits[d + 1]>>
                                          ELSE <<"1", Digits[d - 9]>>)
        /\ Dispatch(Strip(menu), Say(H0, "unknown"))

\* Prompt.ask at the top of the loop is outside the try statement: an
\* interrupt there is caught by nothing in main_loop
MenuInterrupt ==
    /\ pc = "menu"
    /\ pc' = "abort"
    /\ exitKind' = "UncaughtInterrupt"
    /\ UNCHANGED <<adbAt, sel, prompts, calls, results, reports, picked>>

\* the acknowledgment pause: Enter goes back to the top of the loop, where
\* console.clear() wipes what the cycle printed
Acknowledge ==
    /\ pc = "ack"
    /\ pc' = "menu"
    /\ sel' = <<>>
    /\ prompts' = <<>>
    /\ calls' = <<>>
    /\ results' = <<>>
    /\ reports' = <<>>
    /\ picked' = NoPick
    /\ UNCHANGED <<exitKind, adbAt>>

AckInterrupt ==
    /\ pc = "ack"
    /\ pc' = "done"
    /\ exitKind' = "Interrupt"
    /\ reports' = Append(reports, "interrupted")
    /\ UNCHANGED <<adbAt, sel, prompts, calls, results, picked>>

\* between two cycles the user installs or removes the bridge executable;
\* which_adb resolves it afresh at every invocation
AdbMoved ==
    /\ pc = "menu"
    /\ \E at \in {"path", "cache", "nowhere"} : at # adbAt /\ adbAt' = at
    /\ UNCHANGED <<pc, exitKind, sel, prompts, calls, results, reports, picked>>

Next ==
    \/ ListDevices
    \/ StartServer
    \/ StopServer
    \/ PairDevice
    \/ ConnectDevice
    \/ EnableTcpip
    \/ OpenShell
    \/ RunCommand
    \/ InstallApk
    \/ PushFile
    \/ PullFile
    \/ RebootDevice
    \/ DisconnectDevice
    \/ ScreenMirroring
    \/ ShowHelp
    \/ ExitSelected
    \/ UnknownSelection
    \/ MenuInterrupt
    \/ Acknowledge
    \/ AckInterrupt
    \/ AdbMoved

Spec == Init /\ [][Next]_vars

(***************************************************************************)
(* Vocabulary of the properties.                                            *)
(***************************************************************************)
\* the launches of the bridge executable in this cycle
BridgeCalls == SelectSeq(calls, LAMBDA c : c[1] = "adb")

\* the bridge subcommands launched in this cycle that are not the listing
NonListingCalls == SelectSeq(BridgeCalls, LAMBDA c : c # <<"adb", T_devices>>)

\* the selections 1..15, the operations of the menu
OperationSelections ==
    {<<Digits[d + 1]>> : d \in 1..9} \cup {<<"1", Digits[d + 1]>> : d \in 0..5}

\* the operations that ask the device selector for a target
DeviceOperations == {<<"7">>, <<"8">>, <<"9">>, <<"1", "0">>, <<"1", "1">>, <<"1", "2">>}

\* a cycle has run and what it did is on record
CycleRan == pc # "menu"

\* the prompt called name was answered in this cycle, with v
Answered(name, v) ==
    \E i \in 1..Len(prompts) : prompts[i].name = name /\ ~prompts[i].kbd /\ prompts[i].v = v

Asked(name) == \E i \in 1..Len(prompts) : prompts[i].name = name

Reported(tag) == \E i \in 1..Len(reports) : reports[i] = tag

\* a listing line of a device in the ready state: its second token is the
\* state token "device", and it is neither a banner nor the header
IsReadyLine(line) ==
    LET t == Split(line)
    IN  Len(t) >= 2 /\ t[2] = ReadyToken /\ t[1] # <<"*">> /\ line # HeaderLine

\* the serials of the ready devices of a listing
ReadySerials(out) ==
    LET lines == SplitLines(out)
        ready == SelectSeq(lines, IsReadyLine)
    IN  [i \in 1..Len(ready) |-> Split(ready[i])[1]]

\* host is the part of hostport before its first colon
IsHostOf(host, hostport) ==
    /\ \A i \in 1..Len(host) : host[i] # ":"
    /\ Len(host) <= Len(hostport)
    /\ SubSeq(hostport, 1, Len(host)) = host
    /\ (Len(host) = Len(hostport) \/ hostport[Len(host) + 1] = ":")

(***************************************************************************)
(* C1.  As stated: with the bridge executable absent, every operation       *)
(* selected from the menu (1..15) that is not cut short by an interrupt or  *)
(* by an error of its own ends in ToolMissing and the loop terminates.      *)
(***************************************************************************)
C1_EveryOperationToolMissing ==
    (CycleRan /\ adbAt = "nowhere" /\ sel \in OperationSelections
        /\ exitKind # "Interrupt" /\ exitKind # "UncaughtError")
    => (pc = "done" /\ exitKind = "ToolMissing")

\* C1, amended: with the bridge executable absent, every operation that
\* reaches a bridge invocation ends in ToolMissing at that first invocation,
\* reports it and terminates the loop; a cycle that reaches the
\* acknowledgment pause has launched the bridge executable zero times, and
\* a cycle that launched it zero times does not end in ToolMissing.
C1_AbsentBridgeIsFatalWhenInvoked ==
    (CycleRan /\ adbAt = "nowhere")
    => /\ BridgeCalls # <<>> =>
            /\ pc = "done"
            /\ exitKind = "ToolMissing"
            /\ Last(reports) = "toolmissing"
            /\ Len(BridgeCalls) = 1
            /\ results = <<>>
       /\ pc = "ack" => BridgeCalls = <<>>
       /\ exitKind = "ToolMissing" => BridgeCalls # <<>>

C1_Witness ==
    /\ adbAt = "nowhere"
    /\ sel = <<"1", "2">>
    /\ calls = <<(<<"adb", T_devices>>)>>
    /\ pc = "done"
    /\ exitKind = "ToolMissing"

\* the cycles that C1 as stated leaves out: Help with the bridge absent
C1_HelpWitness ==
    adbAt = "nowhere" /\ sel = <<"1", "5">> /\ pc = "ack" /\ reports = <<"help">>

(***************************************************************************)
(* C2.  An interrupt at any point of a cycle is caught: no interrupt        *)
(* leaves main_loop as an uncaught exception.                               *)
(***************************************************************************)
C2_InterruptAlwaysCaught == exitKind # "UncaughtInterrupt"

(***************************************************************************)
(* C3.  Pair issues "connect <host>:5555", host being the part of the       *)
(* entered host:port before the first colon, if and only if the pair call   *)
(* exited 0 with the success marker in its stdout; a follow-up that fails   *)
(* is reported as a warning and never as a failure.                         *)
(***************************************************************************)
C3_PairFollowUp ==
    (CycleRan /\ sel = <<"4">>)
    => LET connects == SelectSeq(BridgeCalls, LAMBDA c : c[2] = T_connect)
           paired == /\ results # <<>>
                     /\ results[1].rc = 0
                     /\ Contains(results[1].out, SuccessMarker)
       IN  /\ (connects # <<>>) <=> paired
           /\ Len(connects) <= 1
           /\ connects # <<>> =>
                \E host \in {SubSeq(prompts[1].v, 1, k) : k \in 0..Len(prompts[1].v)} :
                    /\ IsHostOf(host, prompts[1].v)
                    /\ connects[1] = <<"adb", T_connect, host \o T_colon5555>>
           /\ (Len(results) = 2 /\ results[2].rc # 0) =>
                (Last(reports) \in {"warning", "interrupted"} /\ Reported("warning")
                    /\ ~Reported("failure") /\ exitKind # "ToolMissing")

C3_Witness ==
    /\ sel = <<"4">>
    /\ pc = "ack"
    /\ prompts[1].v = HostPortC
    /\ Len(calls) = 2
    /\ Len(results) = 2
    /\ results[2].rc = 1
    /\ reports = <<"success", "warning">>

(***************************************************************************)
(* C4.  As stated: Push, Pull and Install launch nothing when their local   *)
(* path (Install: the APK, Push: the source, Pull: the destination) is      *)
(* empty or does not exist on disk; a validation failure is reported and    *)
(* the loop goes on.                                                        *)
(***************************************************************************)
LocalPathAnswer ==
    IF sel = <<"9">> /\ Len(prompts) >= 1 THEN <<prompts[1]>>
    ELSE IF sel = <<"1", "0">> /\ Len(prompts) >= 1 THEN <<prompts[1]>>
    ELSE IF sel = <<"1", "1">> /\ Len(prompts) >= 2 THEN <<prompts[2]>>
    ELSE <<>>

ValidationEnded ==
    /\ calls = <<>>
    /\ Reported("validation")
    /\ pc = "ack" \/ (pc = "done" /\ Last(reports) = "interrupted")

C4_NoLaunchOnBadLocalPath ==
    (CycleRan /\ LocalPathAnswer # <<>> /\ ~LocalPathAnswer[1].kbd
        /\ (LocalPathAnswer[1].v = <<>> \/ ~PathExists(LocalPathAnswer[1].v)))
    => ValidationEnded

\* C4, amended: Install launches nothing when the APK path is empty or is
\* not an existing file, Push launches nothing when the source is empty or
\* does not exist, Pull launches nothing when the remote path or the local
\* destination is empty (a destination that does not exist yet is accepted);
\* in each case a validation failure is reported and the loop goes on.
C4_NoLaunchOnRejectedPath ==
    (CycleRan /\ LocalPathAnswer # <<>> /\ ~LocalPathAnswer[1].kbd
        /\ \/ sel = <<"9">> /\ ~PathIsFile(LocalPathAnswer[1].v)
           \/ sel = <<"1", "0">> /\ ~PathExists(LocalPathAnswer[1].v)
           \/ sel = <<"1", "1">> /\ LocalPathAnswer[1].v = <<>>)
    => ValidationEnded

C4_Witness ==
    /\ sel = <<"1", "0">>
    /\ pc = "ack"
    /\ Answered("src", PathMissing)
    /\ calls = <<>>
    /\ reports = <<"validation">>

\* Pull with a destination that does not exist yet does launch the bridge
C4_PullWitness ==
    /\ sel = <<"1", "1">>
    /\ Answered("dst", PathMissing)
    /\ NonListingCalls # <<>>

(***************************************************************************)
(* C5.  As stated: in a Run command cycle where the entered command is      *)
(* empty, the bridge executable is launched zero times.                     *)
(***************************************************************************)
C5_EmptyCommandNoLaunch ==
    (CycleRan /\ sel = <<"8">> /\ Answered("command", <<>>)) => BridgeCalls = <<>>

\* C5, amended: in a Run command cycle where the entered command is empty,
\* a validation failure is reported and no shell command is launched; the
\* only launch of the cycle is the device listing the selector made before
\* the command was asked for.
C5_EmptyCommandNoShell ==
    (CycleRan /\ sel = <<"8">> /\ Answered("command", <<>>))
    => /\ calls = <<(<<"adb", T_devices>>)>>
       /\ Reported("validation")
       /\ pc = "ack" \/ (pc = "done" /\ Last(reports) = "interrupted")

C5_Witness ==
    /\ sel = <<"8">>
    /\ pc = "ack"
    /\ Answered("command", <<>>)
    /\ Last(reports) = "validation"
    /\ picked.serial # <<>>

(***************************************************************************)
(* C6.  Every serial the selector offers or returns is the first token of   *)
(* a listing line in the ready state; the header, banner lines and lines    *)
(* in another state are never selectable.                                   *)
(***************************************************************************)
C6_OnlyReadyLinesSelectable ==
    picked.ran =>
        LET lines == SplitLines(picked.out)
            FromReadyLine(serial) ==
                \E j \in 1..Len(lines) : IsReadyLine(lines[j]) /\ Split(lines[j])[1] = serial
        IN  /\ \A i \in 1..Len(picked.serials) : FromReadyLine(picked.serials[i])
            /\ picked.serial # <<>> => FromReadyLine(picked.serial)

(***************************************************************************)
(* C7.  After a successful listing the selector returns the sole serial     *)
(* without prompting when exactly one device is ready, prompts when more    *)
(* than one is, and reports absence and returns nothing, without            *)
(* prompting, when none is; an operation that gets nothing launches         *)
(* nothing more.                                                            *)
(***************************************************************************)
C7_SelectorByReadyCount ==
    picked.ran =>
        LET ready == ReadySerials(picked.out)
        IN  /\ Len(ready) = 1 => (~Asked("select") /\ picked.serial = ready[1])
            /\ Len(ready) > 1 => Asked("select")
            /\ Len(ready) = 0 =>
                    (~Asked("select") /\ picked.serial = <<>> /\ Reported("nodevice"))
            /\ (picked.serial = <<>> /\ sel \in DeviceOperations) => NonListingCalls = <<>>

(***************************************************************************)
(* C8.  With n > 1 devices offered, an answer k with 1 <= k <= n returns    *)
(* the k-th serial and every other answer returns the first.                *)
(***************************************************************************)
C8_SelectionOrFirst ==
    \A i \in 1..Len(prompts) :
        (prompts[i].name = "select" /\ ~prompts[i].kbd)
        => LET k == PyInt(prompts[i].v)
               n == Len(picked.serials)
           IN  /\ n > 1
               /\ picked.serial = IF k.ok /\ 1 <= k.val /\ k.val <= n
                                  THEN picked.serials[k.val]
                                  ELSE picked.serials[1]

(***************************************************************************)
(* C9.  The loop is left for good only by selection "0" confirmed, by       *)
(* ToolMissing, or by a caught interrupt; whatever else happens in a        *)
(* cycle, it renders its outcome and pauses for acknowledgment.             *)
(***************************************************************************)
C9_OnlyThreeWaysOut ==
    /\ pc \in {"menu", "ack", "done"}
    /\ pc = "done" => exitKind \in {"UserExit", "ToolMissing", "Interrupt"}
    /\ exitKind = "UserExit" => (sel = <<"0">> /\ Answered("confirm", <<"y">>))
    /\ pc \in {"menu", "ack"} => exitKind = "none"

(***************************************************************************)
(* C10.  No error other than ToolMissing leaves an operation as an          *)
(* uncaught exception: every other error is turned into a reported          *)
(* outcome and the loop goes on.                                            *)
(***************************************************************************)
C10_NoUncaughtError == exitKind # "UncaughtError"

====
